---------------------------- MODULE Spec2Model ----------------------------
(***************************************************************************)
(* The chat API route (src/app/api/chat/route.ts) together with the two    *)
(* caching revisions of generateResponse that it can be linked against:    *)
(*   "sliding" : src/lib/ai/gemini.ts  (timestamp list limiter,            *)
(*               responseCache with a stored timestamp and CACHE_TTL)      *)
(*   "fixed"   : src/lib/gemini.ts, second revision, lines 119-270         *)
(*               ({count, resetTime} limiter, cache emptied by setTimeout) *)
(*                                                                         *)
(* Strings are sequences of tokens: a message or a header is a sequence    *)
(* of characters, an error message a sequence of words, a gateway text a   *)
(* sequence of lexical tokens.  Time is counted in ticks; the durations    *)
(* of the source keep their order, not their magnitude:                    *)
(*   AI_RESPONSE_TIMEOUT (10 s) < rate window (60 s) < CACHE_TTL (5 min)   *)
(* (CACHE_TTL_MS, 1 h, belongs to the other revision and is 3 ticks too),  *)
(* and the quotas (10 per window) and the cache cap (1000) are scaled the  *)
(* same way.                                                               *)
(***************************************************************************)
EXTENDS Integers, Sequences, FiniteSets

\* ------------------------------------------------------------ bounds

\* Requests that arrive in one behaviour; request r arrives after r-1.
MaxReqs == 3

\* Requests that arrive in one behaviour of the burst specification.
MaxBurst == 5

\* The clock stops at MaxTime ticks.
MaxTime == 3

\* How many of the four DUMMY_RESPONSES getDummyResponse draws from.
MaxDummy == 2

\* ------------------------------------------------- program constants

\* route.ts:55  const AI_RESPONSE_TIMEOUT = 10000 (ms); here 1 tick.
AI_RESPONSE_TIMEOUT == 1

\* ai/gemini.ts:73  windowStart = now - 60000 (ms); here 2 ticks.
RATE_WINDOW == 2

\* ai/gemini.ts:13  const RATE_LIMIT = 10; here 2.
RATE_LIMIT == 2

\* ai/gemini.ts:5  const CACHE_TTL = 1000 * 60 * 5 (ms); here 3 ticks.
CACHE_TTL == 3

\* ai/gemini.ts:171  responseCache.size > 1000; here 1.
CACHE_MAX_SIZE == 1

\* lib/gemini.ts:135  const RATE_LIMIT_WINDOW_MS = 60 * 1000; here 2 ticks.
RATE_LIMIT_WINDOW_MS == 2

\* lib/gemini.ts:136  const RATE_LIMIT_MAX_REQUESTS = 10; here 2.
RATE_LIMIT_MAX_REQUESTS == 2

\* lib/gemini.ts:137  const CACHE_TTL_MS = 60 * 60 * 1000; here 3 ticks.
CACHE_TTL_MS == 3

\* ---------------------------------------------------------- strings

\* String.prototype.includes, at the granularity of tokens.
Includes(s, p) ==
  \E i \in 1..(Len(s) - Len(p) + 1) : SubSeq(s, i, i + Len(p) - 1) = p

IsSpace(c) == c = " "

RECURSIVE TrimStart(_)
TrimStart(s) ==
  IF s # <<>> /\ IsSpace(Head(s)) THEN TrimStart(Tail(s)) ELSE s

RECURSIVE TrimEnd(_)
TrimEnd(s) ==
  IF s # <<>> /\ IsSpace(s[Len(s)]) THEN TrimEnd(SubSeq(s, 1, Len(s) - 1)) ELSE s

\* String.prototype.trim
Trim(s) == TrimEnd(TrimStart(s))

LowerChar(c) ==
  CASE c = "A" -> "a"
    [] c = "B" -> "b"
    [] OTHER -> c

\* String.prototype.toLowerCase
ToLowerCase(s) == [i \in 1..Len(s) |-> LowerChar(s[i])]

\* String.prototype.split(',')[0]: the text before the first comma.
RECURSIVE SplitFirst(_)
SplitFirst(s) ==
  IF s = <<>> \/ Head(s) = "," THEN <<>> ELSE <<Head(s)>> \o SplitFirst(Tail(s))

\* ------------------------------------------------------------- maps

\* Map.prototype.set / delete on a map held as a function on its keys.
MapSet(m, k, v) == [x \in (DOMAIN m) \cup {k} |-> IF x = k THEN v ELSE m[x]]

MapDelete(m, k) == [x \in (DOMAIN m) \ {k} |-> m[x]]

EmptyMap == [x \in {} |-> 0]


\* -------------------------------------------------------- JSON values

Undefined == [type |-> "undefined", num |-> 0, str |-> <<>>]

JNull == [type |-> "null", num |-> 0, str |-> <<>>]

JNum(n) == [type |-> "number", num |-> n, str |-> <<>>]

JStr(s) == [type |-> "string", num |-> 0, str |-> s]

\* An object; only its "message" property is ever read (Undefined: missing).
JObj(m) == [type |-> "object", num |-> 0, str |-> <<>>, message |-> m]

\* JavaScript's ToBoolean, negated.
Falsy(v) ==
  \/ v.type \in {"undefined", "null"}
  \/ v.type = "number" /\ v.num = 0
  \/ v.type = "string" /\ v.str = <<>>

\* body.message for a non-null body.
MessageOf(v) == IF v.type = "object" THEN v.message ELSE Undefined

\* The guard without its typeof test.
ValidBodyAnyType(v) == ~ (Falsy(v) \/ Falsy(MessageOf(v)))

\* The negation of the 400 guard of POST:
\*   !body || !body.message || typeof body.message !== 'string'
ValidBody(v) ==
  ~ (\/ Falsy(v)
     \/ Falsy(MessageOf(v))
     \/ MessageOf(v).type # "string")

\* ------------------------------------------------------------ inputs

\* Raw chat messages; the first two differ by case and whitespace only.
Messages == { <<"a">>, <<" ", "A">>, <<"b">> }

\* What request.json() throws on a body that is not JSON: the runtime's
\* SyntaxError message, which newer runtimes extend with a quotation of the body.
ParseErrors ==
  { <<"Unexpected", "token">>,
    <<"Unexpected", "token", "timeout", "is", "not", "valid", "JSON">>,
    <<"Unexpected", "token", "Rate", "limit", "is", "not", "valid", "JSON">> }

NoError == <<>>

Parsed(v) == [parse |-> "ok", err |-> NoError, json |-> v]

Unparsed(e) == [parse |-> "error", err |-> e, json |-> Undefined]

InvalidJson == { JNull, JObj(Undefined), JObj(JStr(<<>>)), JObj(JNum(5)) }

ValidJson == { JObj(JStr(m)) : m \in Messages }

Bodies ==
  { Unparsed(e) : e \in ParseErrors } \cup { Parsed(v) : v \in InvalidJson \cup ValidJson }

NoBody == Parsed(Undefined)

\* The x-forwarded-for header: absent, or its text.
NoHeader == [present |-> FALSE, value |-> <<>>]

Header(s) == [present |-> TRUE, value |-> s]

Headers ==
  { NoHeader, Header(<<>>), Header(<<"1">>), Header(<<" ", "1", ",", "2">>),
    Header(<<",", "1">>) }

UNKNOWN == <<"u", "n", "k", "n", "o", "w", "n">>

\* The client identity without the default for an empty first element.
ClientIpNoDefault(h) ==
  IF ~ h.present THEN UNKNOWN
  ELSE Trim(SplitFirst(h.value))

\* request.headers.get('x-forwarded-for')?.split(',')[0].trim() || 'unknown'
ClientIp(h) ==
  IF ~ h.present THEN UNKNOWN
  ELSE LET first == Trim(SplitFirst(h.value))
       IN  IF first = <<>> THEN UNKNOWN ELSE first

Clients == { ClientIp(h) : h \in Headers }

\* The cache key without the case folding.
CacheKeyCaseSensitive(message) == Trim(message)

\* const cacheKey = message.trim().toLowerCase()
CacheKey(message) == ToLowerCase(Trim(message))

\* The key the cache is meant to use: the message trimmed and case-folded.
\* The history of stores is kept under it, whatever key the code computes.
Normalized(message) == ToLowerCase(Trim(message))

Keys == { Normalized(m) : m \in Messages }

\* What the gateway's response.text() can be.
GatewayTexts ==
  { <<>>, <<"x", ".">>, <<"AI:", " ", "y">>, <<"AI:", " ">> }

\* Messages of the errors the gateway SDK can throw.
GatewayErrors ==
  { <<"API", "key", "not", "valid">>, <<"exceeded", "quota">>,
    <<"permission", "denied">>, <<"rate", "limit">>, <<"content", "policy">>,
    <<"request", "timeout">>, <<"fetch", "failed">> }

\* ---------------------------------------------------- error messages

\* ai/gemini.ts:94 and lib/gemini.ts:191
RateLimitExceeded ==
  <<"Rate", "limit", "exceeded.", "Please", "try", "again", "later.">>

\* route.ts:81
TimeoutError == <<"AI", "response", "timeout">>

\* route.ts:153
SaveFailed ==
  <<"Failed", "to", "save", "chat", "message", "to", "the", "database.">>

\* ai/gemini.ts:158 and lib/gemini.ts:241
EmptyResponse == <<"Received", "empty", "response", "from", "AI", "model">>

\* lib/gemini.ts:153
KeyNotSet ==
  <<"GEMINI_API_KEY", "is", "not", "set", "in", "environment", "variables">>

\* The catch block of the sliding revision's generateResponse: what it rethrows.
SlidingRethrow(e) ==
  IF Includes(e, <<"API", "key", "not", "valid">>)
    THEN 
      <<"Invalid", "API", "key.", "Please", "check", "your", "Gemini", "API", "key.">>
  ELSE IF Includes(e, <<"quota">>)
    THEN 
      <<"API", "quota", "exceeded.", "Please", "check", "your", "Gemini", "API", "usage", "limits.">>
  ELSE 
      <<"Failed", "to", "generate", "response.", "Please", "try", "again", "later.">>

\* The catch block of the fixed-window revision's generateResponse.
FixedRethrow(e) ==
  IF Includes(e, <<"API", "key", "not", "valid">>) \/ Includes(e, <<"permission", "denied">>)
    THEN 
      <<"Oops!", "Having", "trouble", "connecting", "to", "the", "AI", "service.", "Please", "try", "again", "later.">>
  ELSE IF Includes(e, <<"rate", "limit">>)
    THEN 
      <<"I'm", "getting", "too", "many", "requests", "right", "now.", "Please", "give", "me", "a", "moment", "and", "try", "again!">>
  ELSE IF Includes(e, <<"content", "policy">>)
    THEN 
      <<"I", "can't", "respond", "to", "that", "request,", "but", "I'm", "happy", "to", "help", "with", "other", "questions!">>
  ELSE 
      <<"Sorry,", "I", "ran", "into", "an", "issue.", "Could", "you", "try", "asking", "again?">>

\* The catch block looking for 'Timeout' instead of 'timeout'.
StatusOfCapitalTimeout(errorMessage) ==
  IF Includes(errorMessage, <<"Timeout">>) THEN 504
  ELSE IF Includes(errorMessage, <<"Rate", "limit">>) THEN 429
  ELSE 500

\* The catch block looking for 'rate limit' instead of 'Rate limit'.
StatusOfLowerRateLimit(errorMessage) ==
  IF Includes(errorMessage, <<"timeout">>) THEN 504
  ELSE IF Includes(errorMessage, <<"rate", "limit">>) THEN 429
  ELSE 500

\* The catch block of POST: the status code chosen from the error's message.
StatusOf(errorMessage) ==
  IF Includes(errorMessage, <<"timeout">>) THEN 504
  ELSE IF Includes(errorMessage, <<"Rate", "limit">>) THEN 429
  ELSE 500

\* ... and the user-facing text that goes with it.
UserFriendlyError(errorMessage) ==
  IF Includes(errorMessage, <<"timeout">>) THEN "AI service is taking too long to respond. Please try again."
  ELSE IF Includes(errorMessage, <<"Rate", "limit">>) THEN "Too many requests. Please wait a moment before trying again."
  ELSE "Failed to generate response. Please try again."

\* ------------------------------------------------- text post-processing

\* .replace(/^(AI:|Assistant:)\s*/i, '')
StripPrefix(text) ==
  IF text # <<>> /\ Head(text) \in {"AI:", "ai:", "Assistant:", "assistant:"}
    THEN TrimStart(Tail(text))
    ELSE text

\* formatResponse of the sliding revision, on texts without code fences,
\* list markers or runs of newlines: the prefix is removed, then the text trimmed.
formatResponse(text) ==
  IF text = <<>> THEN <<>> ELSE Trim(StripPrefix(text))

\* /[.!?]$/.test(text)
EndsWithPunctuation(text) ==
  text # <<>> /\ text[Len(text)] \in {".", "!", "?"}

\* text.replace(/[,\s]*$/, '.')
RECURSIVE DotTail(_)
DotTail(text) ==
  IF text # <<>> /\ (IsSpace(text[Len(text)]) \/ text[Len(text)] = ",")
    THEN DotTail(SubSeq(text, 1, Len(text) - 1))
    ELSE text \o <<".">>

\* lib/gemini.ts:233-238: trim, then force a closing punctuation and a smiley.
Punctuate(raw) ==
  LET text == Trim(raw)
  IN  IF EndsWithPunctuation(text) THEN text ELSE DotTail(text) \o <<" ", ":)">>

\* DUMMY_RESPONSES of the sliding revision (the i-th is <<"dummy", i>>);
\* getDummyResponse picks one at random.
DUMMY_RESPONSES == { <<"dummy", i>> : i \in 1..MaxDummy }

\* lib/gemini.ts:179
BuildDisabled == <<"AI", "response", "generation", "is", "disabled", "during", "build.">>

\* ----------------------------------------------------------- limiters

\* The filter comparing with the current time instead of the window's start.
RecentRequestsNoWindow(requestTimestamps, t) ==
  SelectSeq(requestTimestamps, LAMBDA timestamp : timestamp > t)

\* ai/gemini.ts:76  requestTimestamps.filter(timestamp => timestamp > windowStart)
RecentRequests(requestTimestamps, t) ==
  SelectSeq(requestTimestamps, LAMBDA timestamp : timestamp > t - RATE_WINDOW)

\* The denial test with > for >=.
OverLimitOffByOne(recentRequests) == Len(recentRequests) > RATE_LIMIT

\* ai/gemini.ts:78  the denial test on the filtered list
OverLimit(recentRequests) == Len(recentRequests) >= RATE_LIMIT

\* The lookup reading one list for all clients.
TimestampsOfAnyone(map, ip) ==
  IF DOMAIN map = {} THEN <<>> ELSE map[CHOOSE k \in DOMAIN map : TRUE]

\* ai/gemini.ts:75  rateLimitMap.get(ip) || []
TimestampsOf(map, ip) == IF ip \in DOMAIN map THEN map[ip] ELSE <<>>

\* checkRateLimit storing the unfiltered list.
checkRateLimitKeepingAll(map, ip, t) ==
  LET recentRequests == RecentRequests(TimestampsOf(map, ip), t)
  IN  IF OverLimit(recentRequests)
        THEN [allowed |-> FALSE, map |-> map]
        ELSE [allowed |-> TRUE, map |-> MapSet(map, ip, Append(TimestampsOf(map, ip), t))]

\* checkRateLimit keeping the time of a denied request as well.
checkRateLimitRecordingDenied(map, ip, t) ==
  LET recentRequests == RecentRequests(TimestampsOf(map, ip), t)
  IN  IF OverLimit(recentRequests)
        THEN [allowed |-> FALSE, map |-> MapSet(map, ip, Append(recentRequests, t))]
        ELSE [allowed |-> TRUE, map |-> MapSet(map, ip, Append(recentRequests, t))]

\* checkRateLimit: the decision and the map it leaves.
checkRateLimit(map, ip, t) ==
  LET recentRequests == RecentRequests(TimestampsOf(map, ip), t)
  IN  IF OverLimit(recentRequests)
        THEN [allowed |-> FALSE, map |-> map]
        ELSE [allowed |-> TRUE, map |-> MapSet(map, ip, Append(recentRequests, t))]

\* The fixed-window limiter denying one request too late.
FixedWindowLimitOffByOne(map, ip, t) ==
  IF ip \in DOMAIN map
    THEN IF t > map[ip].resetTime
           THEN [allowed |-> TRUE,
                 map |-> MapSet(map, ip, [count |-> 1, resetTime |-> t + RATE_LIMIT_WINDOW_MS])]
         ELSE IF map[ip].count > RATE_LIMIT_MAX_REQUESTS
           THEN [allowed |-> FALSE, map |-> map]
         ELSE [allowed |-> TRUE,
               map |-> MapSet(map, ip, [count |-> map[ip].count + 1,
                                        resetTime |-> map[ip].resetTime])]
    ELSE [allowed |-> TRUE,
          map |-> MapSet(map, ip, [count |-> 1, resetTime |-> t + RATE_LIMIT_WINDOW_MS])]

\* The fixed-window limiter resetting as soon as the reset time is reached.
FixedWindowLimitResetAtBoundary(map, ip, t) ==
  IF ip \in DOMAIN map
    THEN IF t >= map[ip].resetTime
           THEN [allowed |-> TRUE,
                 map |-> MapSet(map, ip, [count |-> 1, resetTime |-> t + RATE_LIMIT_WINDOW_MS])]
         ELSE IF map[ip].count >= RATE_LIMIT_MAX_REQUESTS
           THEN [allowed |-> FALSE, map |-> map]
         ELSE [allowed |-> TRUE,
               map |-> MapSet(map, ip, [count |-> map[ip].count + 1,
                                        resetTime |-> map[ip].resetTime])]
    ELSE [allowed |-> TRUE,
          map |-> MapSet(map, ip, [count |-> 1, resetTime |-> t + RATE_LIMIT_WINDOW_MS])]

\* lib/gemini.ts:183-200: the fixed-window limiter inlined in generateResponse.
FixedWindowLimit(map, ip, t) ==
  IF ip \in DOMAIN map
    THEN IF t > map[ip].resetTime
           THEN [allowed |-> TRUE,
                 map |-> MapSet(map, ip, [count |-> 1, resetTime |-> t + RATE_LIMIT_WINDOW_MS])]
         ELSE IF map[ip].count >= RATE_LIMIT_MAX_REQUESTS
           THEN [allowed |-> FALSE, map |-> map]
         ELSE [allowed |-> TRUE,
               map |-> MapSet(map, ip, [count |-> map[ip].count + 1,
                                        resetTime |-> map[ip].resetTime])]
    ELSE [allowed |-> TRUE,
          map |-> MapSet(map, ip, [count |-> 1, resetTime |-> t + RATE_LIMIT_WINDOW_MS])]

\* -------------------------------------------------------------- caches

\* The freshness test with <= for <.
IsFreshInclusive(entry, t) == t - entry.timestamp <= CACHE_TTL

\* ai/gemini.ts:100  cached && (Date.now() - cached.timestamp) < CACHE_TTL
IsFresh(entry, t) == t - entry.timestamp < CACHE_TTL

CacheHit(c, cacheKey, t) == cacheKey \in DOMAIN c /\ IsFresh(c[cacheKey], t)

\* ai/gemini.ts:174  the entries the clean-up deletes
IsStale(entry, t) == t - entry.timestamp > CACHE_TTL

\* ai/gemini.ts:171-178  the clean-up that follows every store
CleanUp(c, t) ==
  IF Cardinality(DOMAIN c) > CACHE_MAX_SIZE
    THEN [k \in { x \in DOMAIN c : ~ IsStale(c[x], t) } |-> c[k]]
    ELSE c

\* A store that keeps the entry a key already has.
StoreResponseKeepingFirst(c, cacheKey, formattedResponse, t) ==
  IF cacheKey \in DOMAIN c
    THEN CleanUp(c, t)
    ELSE CleanUp(MapSet(c, cacheKey, [response |-> formattedResponse, timestamp |-> t]), t)

\* ai/gemini.ts:165-178  responseCache.set followed by the clean-up
StoreResponse(c, cacheKey, formattedResponse, t) ==
  CleanUp(MapSet(c, cacheKey, [response |-> formattedResponse, timestamp |-> t]), t)

\* --------------------------------------------------------------- state

VARIABLES
  rev,            \* which revision of generateResponse the route is linked with
  apiKey,         \* process.env.GEMINI_API_KEY is set (and the client was built)
  nextPhase,      \* process.env.NEXT_PHASE
  nodeEnv,        \* process.env.NODE_ENV
  now,            \* Date.now(), in ticks
  rateLimitMap,   \* ip -> timestamps ("sliding"), ip -> {count, resetTime} ("fixed")
  responseCache,  \* "sliding": cacheKey -> {response, timestamp}
  cache,          \* "fixed": cacheKey -> {value, timeout}
  cacheTimers,    \* "fixed": the pending setTimeout handles that delete a key
  req,            \* the requests: position in POST, promise states, response
  calls,          \* history: ip -> the limiter's decisions for it, in order
  lastStore       \* history: cacheKey -> the last store to it

vars ==
  << rev, apiKey, nextPhase, nodeEnv, now, rateLimitMap, responseCache, cache,
     cacheTimers, req, calls, lastStore >>

env == << rev, apiKey, nextPhase, nodeEnv >>

Reqs == 1..MaxBurst

\* A request that has not arrived yet.
NewRequest ==
  [ pc         |-> "new",     \* new, racing, persisting, done
    body       |-> NoBody,    \* what request.json() gave
    gen        |-> "none",    \* the promise of generateResponse:
                              \*   none, pending, resolved, rejected
    genVal     |-> <<>>,      \* its text, or its error's message
    timer      |-> -1,        \* when the setTimeout of the race is due (-1: not pending)
    status     |-> 0,         \* the HTTP status sent (0: no response yet)
    response   |-> <<>>,      \* body.response
    error      |-> "",        \* body.error
    details    |-> <<>>,      \* body.details: <<message>>, or <<>> when undefined
    lim        |-> "none",    \* the limiter's decision: none, allowed, denied
    cacheRead  |-> "none",    \* the cache lookup: none, hit, miss
    gwCalled   |-> FALSE,     \* the gateway was invoked
    gwText     |-> <<>>,      \* <<text>> once the gateway has returned text
    cacheWrite |-> FALSE,     \* this request wrote the cache
    persist    |-> "none",    \* storeChatMessage: none, called, ok, failed
    timedOut   |-> FALSE ]    \* the timer fired before generateResponse settled

NoStore == [by |-> 0, message |-> <<>>, value |-> <<>>, time |-> -1]

\* route.ts:7
RouteBuildPhase == nextPhase = "phase-production-build"

\* ai/gemini.ts:8-10 and lib/gemini.ts:178
GeminiBuildPhase ==
  IF rev = "sliding"
    THEN nextPhase \in {"phase-production-build", "phase-export"}
    ELSE nextPhase = "phase-production-build"

\* The state of a fresh server process.  NEXT_PHASE names a build phase only
\* while the application is being built, when no request is served.
Init ==
  /\ rev \in {"sliding", "fixed"}
  /\ apiKey \in BOOLEAN
  /\ nextPhase = ""
  /\ nodeEnv \in {"development", "production"}
  /\ now = 0
  /\ rateLimitMap = EmptyMap
  /\ responseCache = EmptyMap
  /\ cache = EmptyMap
  /\ cacheTimers = {}
  /\ req = [r \in Reqs |-> NewRequest]
  /\ calls = [c \in Clients |-> <<>>]
  /\ lastStore = [k \in Keys |-> NoStore]

\* -------------------------------------------- generateResponse, up to
\* its first await: the outcome and the limiter map it leaves.

\* generateResponse looking in the cache before asking the limiter.
SlidingSyncCacheFirst(message, ip, d) ==
  LET checked == ip # <<>>
      rl      == IF checked THEN checkRateLimit(rateLimitMap, ip, now)
                            ELSE [allowed |-> TRUE, map |-> rateLimitMap]
      cacheKey == CacheKey(message)
  IN  IF CacheHit(responseCache, cacheKey, now)
        THEN [gen |-> "resolved", val |-> responseCache[cacheKey].response,
              map |-> rateLimitMap, lim |-> "none", cacheRead |-> "hit", gw |-> FALSE]
      ELSE IF ~ rl.allowed
        THEN [gen |-> "rejected", val |-> RateLimitExceeded, map |-> rl.map,
              lim |-> "denied", cacheRead |-> "miss", gw |-> FALSE]
      ELSE [gen |-> "pending", val |-> <<>>, map |-> rl.map,
            lim |-> IF checked THEN "allowed" ELSE "none", cacheRead |-> "miss", gw |-> TRUE]

\* generateResponse giving the unit back when the cache answers.
SlidingSyncHitFree(message, ip, d) ==
  LET checked == ip # <<>>
      rl      == IF checked THEN checkRateLimit(rateLimitMap, ip, now)
                            ELSE [allowed |-> TRUE, map |-> rateLimitMap]
      cacheKey == CacheKey(message)
  IN  IF GeminiBuildPhase
        THEN [gen |-> "resolved", val |-> d, map |-> rateLimitMap,
              lim |-> "none", cacheRead |-> "none", gw |-> FALSE]
      ELSE IF ~ rl.allowed
        THEN [gen |-> "rejected", val |-> RateLimitExceeded, map |-> rl.map,
              lim |-> "denied", cacheRead |-> "none", gw |-> FALSE]
      ELSE IF CacheHit(responseCache, cacheKey, now)
        THEN [gen |-> "resolved", val |-> responseCache[cacheKey].response,
              map |-> rateLimitMap,
              lim |-> IF checked THEN "allowed" ELSE "none", cacheRead |-> "hit", gw |-> FALSE]
      ELSE IF ~ apiKey
        THEN [gen |-> "resolved", val |-> d, map |-> rl.map,
              lim |-> IF checked THEN "allowed" ELSE "none", cacheRead |-> "miss", gw |-> FALSE]
      ELSE [gen |-> "pending", val |-> <<>>, map |-> rl.map,
            lim |-> IF checked THEN "allowed" ELSE "none", cacheRead |-> "miss", gw |-> TRUE]

\* ai/gemini.ts:86-108; d is what getDummyResponse would pick.
SlidingSync(message, ip, d) ==
  LET checked == ip # <<>>
      rl      == IF checked THEN checkRateLimit(rateLimitMap, ip, now)
                            ELSE [allowed |-> TRUE, map |-> rateLimitMap]
      cacheKey == CacheKey(message)
  IN  IF GeminiBuildPhase
        THEN [gen |-> "resolved", val |-> d, map |-> rateLimitMap,
              lim |-> "none", cacheRead |-> "none", gw |-> FALSE]
      ELSE IF ~ rl.allowed
        THEN [gen |-> "rejected", val |-> RateLimitExceeded, map |-> rl.map,
              lim |-> "denied", cacheRead |-> "none", gw |-> FALSE]
      ELSE IF CacheHit(responseCache, cacheKey, now)
        THEN [gen |-> "resolved", val |-> responseCache[cacheKey].response, map |-> rl.map,
              lim |-> IF checked THEN "allowed" ELSE "none", cacheRead |-> "hit", gw |-> FALSE]
      ELSE IF ~ apiKey
        THEN [gen |-> "resolved", val |-> d, map |-> rl.map,
              lim |-> IF checked THEN "allowed" ELSE "none", cacheRead |-> "miss", gw |-> FALSE]
      ELSE [gen |-> "pending", val |-> <<>>, map |-> rl.map,
            lim |-> IF checked THEN "allowed" ELSE "none", cacheRead |-> "miss", gw |-> TRUE]

\* lib/gemini.ts:176-231
FixedSync(message, ip) ==
  LET rl == FixedWindowLimit(rateLimitMap, ip, now)
      cacheKey == CacheKey(message)
  IN  IF GeminiBuildPhase
        THEN [gen |-> "resolved", val |-> BuildDisabled, map |-> rateLimitMap,
              lim |-> "none", cacheRead |-> "none", gw |-> FALSE]
      ELSE IF ~ rl.allowed
        THEN [gen |-> "rejected", val |-> RateLimitExceeded, map |-> rl.map,
              lim |-> "denied", cacheRead |-> "none", gw |-> FALSE]
      ELSE IF cacheKey \in DOMAIN cache
        THEN [gen |-> "resolved", val |-> cache[cacheKey].value, map |-> rl.map,
              lim |-> "allowed", cacheRead |-> "hit", gw |-> FALSE]
      ELSE IF ~ apiKey
        THEN [gen |-> "rejected", val |-> FixedRethrow(KeyNotSet), map |-> rl.map,
              lim |-> "allowed", cacheRead |-> "miss", gw |-> FALSE]
      ELSE [gen |-> "pending", val |-> <<>>, map |-> rl.map,
            lim |-> "allowed", cacheRead |-> "miss", gw |-> TRUE]

\* ------------------------------------------------------- POST, pieces

\* The details field filled in whatever the environment.
DetailsAlways(errorMessage) == <<errorMessage>>

\* route.ts:114  details: NODE_ENV === 'development' ? errorMessage : undefined
Details(errorMessage) ==
  IF nodeEnv = "development" THEN <<errorMessage>> ELSE <<>>

\* route.ts:95-121: the catch block sends the error response.
Catch(q, errorMessage) ==
  [q EXCEPT !.pc = "done",
            !.status = StatusOf(errorMessage),
            !.error = UserFriendlyError(errorMessage),
            !.details = Details(errorMessage)]

\* route.ts:90-93
Respond(q) ==
  [q EXCEPT !.pc = "done", !.status = 200, !.response = q.genVal]

\* POST answering with the text without calling storeChatMessage.
AfterGenSkippingStore(q) ==
  IF q.pc # "racing" THEN q
  ELSE IF q.gen = "rejected" THEN Catch(q, q.genVal)
  ELSE Respond(q)

\* generateResponse settling acts on the request even after the race was lost.
AfterGenIgnoringRace(q) ==
  IF q.gen = "rejected" THEN Catch(q, q.genVal)
  ELSE IF RouteBuildPhase THEN Respond(q)
  ELSE [q EXCEPT !.pc = "persisting", !.persist = "called"]

\* route.ts:78-88: generateResponse settled; the race, if still open, takes it.
AfterGen(q) ==
  IF q.pc # "racing" THEN q
  ELSE IF q.gen = "rejected" THEN Catch(q, q.genVal)
  ELSE IF RouteBuildPhase THEN Respond(q)
  ELSE [q EXCEPT !.pc = "persisting", !.persist = "called"]

Arrives(r) ==
  /\ req[r].pc = "new"
  /\ \A p \in Reqs : p < r => req[p].pc # "new"

\* The limiter's decision, appended to the client's history.
Logged(ip, lim) ==
  IF lim = "none" THEN calls
  ELSE [calls EXCEPT ![ip] = Append(@, [t |-> now, allowed |-> lim = "allowed"])]

\* ------------------------------------------------------------- actions

\* POST, request.json() throws: the catch block answers (route.ts:62, 95-121).
PostMalformed(r, e) ==
  /\ Arrives(r)
  /\ req' = [req EXCEPT ![r] = Catch([@ EXCEPT !.body = Unparsed(e)], e)]
  /\ UNCHANGED << env, now, rateLimitMap, responseCache, cache, cacheTimers,
                  calls, lastStore >>

\* POST, the body fails the guard of route.ts:63: 400.
PostInvalid(r, v) ==
  /\ Arrives(r)
  /\ ~ ValidBody(v)
  /\ req' = [req EXCEPT ![r] =
               [@ EXCEPT !.pc = "done", !.body = Parsed(v), !.status = 400,
                         !.error = "Message must be a non-empty string"]]
  /\ UNCHANGED << env, now, rateLimitMap, responseCache, cache, cacheTimers,
                  calls, lastStore >>

\* POST with a valid body, up to its first suspension: generateResponse runs to
\* its first await (limiter, cache lookup, gateway call), the timer is armed and
\* the race is awaited (route.ts:70-83).
PostChat(r, v, h, d) ==
  /\ Arrives(r)
  /\ ValidBody(v)
  /\ LET message  == MessageOf(v).str
         clientIp == ClientIp(h)
         g == IF rev = "sliding" THEN SlidingSync(message, clientIp, d)
                                 ELSE FixedSync(message, clientIp)
         q == [req[r] EXCEPT !.pc = "racing", !.body = Parsed(v),
                             !.gen = g.gen, !.genVal = g.val,
                             !.timer = now + AI_RESPONSE_TIMEOUT, !.lim = g.lim,
                             !.cacheRead = g.cacheRead, !.gwCalled = g.gw]
     IN  /\ req' = [req EXCEPT ![r] = IF g.gen = "pending" THEN q ELSE AfterGen(q)]
         /\ rateLimitMap' = g.map
         /\ calls' = Logged(clientIp, g.lim)
  /\ UNCHANGED << env, now, responseCache, cache, cacheTimers, lastStore >>

MessageIn(q) == MessageOf(q.body.json).str

KeyOf(q) == CacheKey(MessageIn(q))

Stored(r, value) ==
  [lastStore EXCEPT ![Normalized(MessageIn(req[r]))] =
     [by |-> r, message |-> MessageIn(req[r]), value |-> value, time |-> now]]

\* generateResponse without the test for an empty text: whatever the gateway
\* returned is formatted, stored and returned.
SlidingResumeStoringEmpty(r, text) ==
  /\ UNCHANGED << cache, cacheTimers >>
  /\ responseCache' =
       StoreResponse(responseCache, KeyOf(req[r]), formatResponse(text), now)
  /\ lastStore' = Stored(r, formatResponse(text))
  /\ req' = [req EXCEPT ![r] =
               AfterGen([@ EXCEPT !.gen = "resolved",
                                  !.gwText = <<text>>,
                                  !.genVal = formatResponse(text),
                                  !.cacheWrite = TRUE])]

\* generateResponse dropping a text that arrives after POST has answered.
SlidingResumeDroppingLate(r, text) ==
  /\ UNCHANGED << cache, cacheTimers >>
  /\ IF text = <<>>
       THEN /\ req' = [req EXCEPT ![r] =
                         AfterGen([@ EXCEPT !.gen = "rejected",
                                            !.gwText = <<text>>,
                                            !.genVal = SlidingRethrow(EmptyResponse)])]
            /\ UNCHANGED << responseCache, lastStore >>
       ELSE IF req[r].pc = "done"
       THEN /\ req' = [req EXCEPT ![r] =
                         [@ EXCEPT !.gen = "resolved",
                                   !.gwText = <<text>>,
                                   !.genVal = formatResponse(text)]]
            /\ UNCHANGED << responseCache, lastStore >>
       ELSE /\ responseCache' =
                 StoreResponse(responseCache, KeyOf(req[r]), formatResponse(text), now)
            /\ lastStore' = Stored(r, formatResponse(text))
            /\ req' = [req EXCEPT ![r] =
                         AfterGen([@ EXCEPT !.gen = "resolved",
                                            !.gwText = <<text>>,
                                            !.genVal = formatResponse(text),
                                            !.cacheWrite = TRUE])]

\* ai/gemini.ts:153-180: generateResponse resumes with the gateway's text.
SlidingResume(r, text) ==
  /\ UNCHANGED << cache, cacheTimers >>
  /\ IF text = <<>>
       THEN /\ req' = [req EXCEPT ![r] =
                         AfterGen([@ EXCEPT !.gen = "rejected",
                                            !.gwText = <<text>>,
                                            !.genVal = SlidingRethrow(EmptyResponse)])]
            /\ UNCHANGED << responseCache, lastStore >>
       ELSE /\ responseCache' =
                 StoreResponse(responseCache, KeyOf(req[r]), formatResponse(text), now)
            /\ lastStore' = Stored(r, formatResponse(text))
            /\ req' = [req EXCEPT ![r] =
                         AfterGen([@ EXCEPT !.gen = "resolved",
                                            !.gwText = <<text>>,
                                            !.genVal = formatResponse(text),
                                            !.cacheWrite = TRUE])]

\* lib/gemini.ts:231-251
FixedResume(r, text) ==
  /\ UNCHANGED responseCache
  /\ IF Punctuate(text) = <<>>
       THEN /\ req' = [req EXCEPT ![r] =
                         AfterGen([@ EXCEPT !.gen = "rejected",
                                            !.gwText = <<text>>,
                                            !.genVal = FixedRethrow(EmptyResponse)])]
            /\ UNCHANGED << cache, cacheTimers, lastStore >>
       ELSE /\ cacheTimers' = cacheTimers \cup
                 {[key |-> KeyOf(req[r]), due |-> now + CACHE_TTL_MS, id |-> r]}
            /\ cache' = MapSet(cache, KeyOf(req[r]),
                               [value |-> Punctuate(text), timeout |-> r])
            /\ lastStore' = Stored(r, Punctuate(text))
            /\ req' = [req EXCEPT ![r] =
                         AfterGen([@ EXCEPT !.gen = "resolved",
                                            !.gwText = <<text>>,
                                            !.genVal = Punctuate(text),
                                            !.cacheWrite = TRUE])]

\* The gateway returns text: generateResponse resumes, and POST resumes if the
\* race was still open.
GatewayReturns(r, text) ==
  /\ req[r].gen = "pending"
  /\ IF rev = "sliding" THEN SlidingResume(r, text) ELSE FixedResume(r, text)
  /\ UNCHANGED << env, now, rateLimitMap, calls >>

\* The gateway call throws: the catch block of generateResponse rethrows.
GatewayThrows(r, e) ==
  /\ req[r].gen = "pending"
  /\ req' = [req EXCEPT ![r] =
               AfterGen([@ EXCEPT !.gen = "rejected",
                                  !.genVal = IF rev = "sliding" THEN SlidingRethrow(e)
                                                                ELSE FixedRethrow(e)])]
  /\ UNCHANGED << env, now, rateLimitMap, responseCache, cache, cacheTimers,
                  calls, lastStore >>

\* The timer of the race fires and its callback rejects nothing.
TimerFiresWithoutReject(r) ==
  /\ req[r].timer >= 0
  /\ now >= req[r].timer
  /\ req' = [req EXCEPT ![r] = [@ EXCEPT !.timer = -1]]
  /\ UNCHANGED << env, now, rateLimitMap, responseCache, cache, cacheTimers,
                  calls, lastStore >>

\* The timer of the race fires (route.ts:80-82); it rejects the race if open.
TimerFires(r) ==
  /\ req[r].timer >= 0
  /\ now >= req[r].timer
  /\ req' = [req EXCEPT ![r] =
               IF @.pc = "racing"
                 THEN Catch([@ EXCEPT !.timer = -1,
                                      !.timedOut = (req[r].gen = "pending")],
                            TimeoutError)
                 ELSE [@ EXCEPT !.timer = -1,
                                !.timedOut = (req[r].gen = "pending")]]
  /\ UNCHANGED << env, now, rateLimitMap, responseCache, cache, cacheTimers,
                  calls, lastStore >>

\* storeChatMessage returns (route.ts:87-93).
PersistOk(r) ==
  /\ req[r].pc = "persisting"
  /\ req' = [req EXCEPT ![r] = Respond([@ EXCEPT !.persist = "ok"])]
  /\ UNCHANGED << env, now, rateLimitMap, responseCache, cache, cacheTimers,
                  calls, lastStore >>

\* The connection or insertOne fails: storeChatMessage rethrows (route.ts:150-154)
\* into the try block of POST.
PersistFails(r) ==
  /\ req[r].pc = "persisting"
  /\ req' = [req EXCEPT ![r] = Catch([@ EXCEPT !.persist = "failed"], SaveFailed)]
  /\ UNCHANGED << env, now, rateLimitMap, responseCache, cache, cacheTimers,
                  calls, lastStore >>

\* A setTimeout of the fixed-window revision's cache fires (lib/gemini.ts:245-247).
CacheTimerFires(tm) ==
  /\ tm \in cacheTimers
  /\ now >= tm.due
  /\ cache' = MapDelete(cache, tm.key)
  /\ cacheTimers' = cacheTimers \ {tm}
  /\ UNCHANGED << env, now, rateLimitMap, responseCache, req, calls, lastStore >>

Tick ==
  /\ now < MaxTime
  /\ now' = now + 1
  /\ UNCHANGED << env, rateLimitMap, responseCache, cache, cacheTimers, req,
                  calls, lastStore >>

\* What happens to requests in R once they are in flight, with the gateway
\* answering from T or failing with an error of E.
InFlight(R, T, E) ==
  \/ \E r \in R, text \in T : GatewayReturns(r, text)
  \/ \E r \in R, e \in E : GatewayThrows(r, e)
  \/ \E r \in R : TimerFires(r)
  \/ \E r \in R : PersistOk(r)
  \/ \E r \in R : PersistFails(r)
  \/ \E tm \in cacheTimers : CacheTimerFires(tm)
  \/ Tick

\* ------------------------------------------------------ specifications

Chat(m) == JObj(JStr(m))

\* The route: every kind of body, every gateway outcome; one client, one
\* message, MaxReqs - 1 requests.
RouteReqs == 1..(MaxReqs - 1)

RouteBodies == InvalidJson \cup {Chat(<<"a">>)}

Next ==
  \/ \E r \in RouteReqs, e \in ParseErrors : PostMalformed(r, e)
  \/ \E r \in RouteReqs, v \in RouteBodies : PostInvalid(r, v)
  \/ \E r \in RouteReqs, v \in RouteBodies, d \in DUMMY_RESPONSES :
       PostChat(r, v, NoHeader, d)
  \/ InFlight(RouteReqs, GatewayTexts, GatewayErrors)

Spec == Init /\ [][Next]_vars

\* The caches: every message and every gateway text; one client, the API key
\* set, a production environment.
InitCache == Init /\ apiKey /\ nodeEnv = "production"

NextCache ==
  \/ \E r \in RouteReqs, m \in Messages, d \in DUMMY_RESPONSES :
       PostChat(r, Chat(m), NoHeader, d)
  \/ InFlight(RouteReqs, GatewayTexts, {<<"fetch", "failed">>})

SpecCache == InitCache /\ [][NextCache]_vars

\* The limiters: every header, MaxReqs requests; one message, one gateway text,
\* the API key set.
QuotaReqs == 1..MaxReqs

NextQuota ==
  \/ \E r \in QuotaReqs, h \in Headers, d \in DUMMY_RESPONSES :
       PostChat(r, Chat(<<"a">>), h, d)
  \/ InFlight(QuotaReqs, {<<"x", ".">>}, {<<"fetch", "failed">>})

SpecQuota == InitCache /\ [][NextQuota]_vars

\* Bursts against the fixed-window limiter: MaxBurst requests of two clients,
\* one message.  The API key is not set: the limiter runs before the client is
\* fetched, and an admitted request fails at once in getGeminiClient, so that
\* only the timers of the races stay behind.
InitBurst == Init /\ rev = "fixed" /\ ~ apiKey /\ nodeEnv = "production"

BurstHeaders == { NoHeader, Header(<<"1">>) }

NextBurst ==
  \/ \E r \in Reqs, h \in BurstHeaders, d \in DUMMY_RESPONSES :
       PostChat(r, Chat(<<"a">>), h, d)
  \/ \E r \in Reqs : TimerFires(r)
  \/ Tick

SpecBurst == InitBurst /\ [][NextBurst]_vars

\* Termination: the route in production, with requests arriving while their
\* timer can still fall due before the clock stops.  The timers fire once due,
\* time passes, and storeChatMessage returns or throws; nothing is assumed of
\* the gateway.
InitLive == Init /\ nodeEnv = "production"

NextLive ==
  \/ \E r \in RouteReqs, e \in ParseErrors : PostMalformed(r, e)
  \/ \E r \in RouteReqs, v \in RouteBodies : PostInvalid(r, v)
  \/ \E r \in RouteReqs, v \in RouteBodies, d \in DUMMY_RESPONSES :
       /\ now + AI_RESPONSE_TIMEOUT <= MaxTime
       /\ PostChat(r, v, NoHeader, d)
  \/ InFlight(RouteReqs, GatewayTexts, GatewayErrors)

Fairness ==
  /\ WF_vars(Tick)
  /\ \A r \in RouteReqs :
       /\ WF_vars(TimerFires(r))
       /\ WF_vars(PersistOk(r) \/ PersistFails(r))

SpecLive == InitLive /\ [][NextLive]_vars /\ Fairness

\* -------------------------------------------------------------- claims

\* The times of the admitted calls of a client, in order.
AdmittedTimes(c) ==
  LET adm == SelectSeq(calls[c], LAMBDA x : x.allowed)
  IN  [i \in 1..Len(adm) |-> adm[i].t]

\* Calls i .. i+RATE_LIMIT of client c are RATE_LIMIT + 1 calls inside one
\* window, and no call admitted before them lies in the window that ends at call i.
Burst(c, i) ==
  /\ i + RATE_LIMIT <= Len(calls[c])
  /\ calls[c][i + RATE_LIMIT].t - calls[c][i].t < RATE_WINDOW
  /\ \A j \in 1..(i - 1) :
       calls[c][j].allowed => ~ (calls[c][j].t > calls[c][i].t - RATE_WINDOW)

\* C1: sliding-window limiter: when RATE_LIMIT + 1 requests of a client arrive
\* within one window, and the client has no admitted request in the window
\* before the first of them, the first RATE_LIMIT are allowed and the last denied.
C1_BurstDenied ==
  rev = "sliding" =>
    \A c \in Clients : \A i \in 1..Len(calls[c]) :
      Burst(c, i) =>
        /\ \A k \in i..(i + RATE_LIMIT - 1) : calls[c][k].allowed
        /\ ~ calls[c][i + RATE_LIMIT].allowed

C1_Witness ==
  /\ rev = "sliding"
  /\ \E c \in Clients :
       /\ Burst(c, 1)
       /\ ~ calls[c][1 + RATE_LIMIT].allowed
       /\ \E r \in Reqs : req[r].lim = "denied" /\ req[r].status = 429

\* Requests suspended at the gateway or at the persistence await.
Suspended == { r \in Reqs : req[r].gen = "pending" \/ req[r].pc = "persisting" }

\* C2: sliding-window limiter under concurrency: at every time T a client has
\* at most RATE_LIMIT admitted requests with a timestamp in (T - W, T], and the
\* timestamps the limiter holds for the current window are exactly the admitted
\* ones, none lost and none counted twice.
C2_WindowBound ==
  rev = "sliding" =>
    \A c \in Clients :
      /\ \A T \in 0..MaxTime :
           Cardinality({ i \in 1..Len(calls[c]) :
                           /\ calls[c][i].allowed
                           /\ T - RATE_WINDOW < calls[c][i].t
                           /\ calls[c][i].t <= T }) <= RATE_LIMIT
      /\ SelectSeq(TimestampsOf(rateLimitMap, c), LAMBDA t : t > now - RATE_WINDOW)
           = SelectSeq(AdmittedTimes(c), LAMBDA t : t > now - RATE_WINDOW)

C2_Witness ==
  /\ rev = "sliding"
  /\ Cardinality(Suspended) >= 2
  /\ \E c \in Clients :
       /\ Len(AdmittedTimes(c)) = RATE_LIMIT
       /\ Len(calls[c]) > RATE_LIMIT
       /\ \A i \in 1..Len(calls[c]) : calls[c][i].t > now - RATE_WINDOW

\* C3: when the timer of the race fires while generateResponse has not settled,
\* the request is answered 504, whatever the gateway call does afterwards.
C3_TimeoutIs504 ==
  \A r \in Reqs :
    req[r].timedOut =>
      /\ req[r].pc = "done"
      /\ req[r].status = 504
      /\ req[r].response = <<>>
      /\ req[r].persist = "none"

C3_Witness ==
  \E r \in Reqs :
    /\ req[r].timedOut
    /\ req[r].gen = "resolved"
    /\ req[r].genVal # <<>>
    /\ req[r].status = 504

\* C4 (as claimed): a request that obtained its text answers 200 with that
\* text even when storeChatMessage fails.
C4_PersistFailureHidden ==
  \A r \in Reqs :
    req[r].persist = "failed" =>
      req[r].status = 200 /\ req[r].response = req[r].genVal

\* The request r passes from arrival to its first suspension in this step.
Handled(r) == req[r].pc = "new" /\ req'[r].pc # "new"

\* C5: sliding revision: an admitted request finds the last store to its
\* normalized message, made less than CACHE_TTL before: it gets exactly the
\* stored text and the gateway is not invoked.
C5_HitOnEquivalent ==
  [][ \A r \in Reqs :
        LET last == lastStore[Normalized(MessageIn(req'[r]))]
        IN  ( /\ rev = "sliding"
              /\ Handled(r)
              /\ ValidBody(req'[r].body.json)
              /\ req'[r].lim = "allowed"
              /\ last.by # 0
              /\ now - last.time < CACHE_TTL )
            => /\ req'[r].cacheRead = "hit"
               /\ req'[r].gen = "resolved"
               /\ req'[r].genVal = last.value
               /\ ~ req'[r].gwCalled ]_vars

C5_Witness ==
  /\ rev = "sliding"
  /\ \E r \in Reqs :
       LET last == lastStore[Normalized(MessageIn(req[r]))]
       IN  /\ req[r].cacheRead = "hit"
           /\ req[r].lim = "allowed"
           /\ ~ req[r].gwCalled
           /\ last.by \notin {0, r}
           /\ last.message # MessageIn(req[r])
           /\ last.value # <<>>
           /\ req[r].genVal = last.value
           /\ req[r].status = 200
           /\ req[r].response = last.value

\* C6: both revisions: a denied request has neither looked in the cache nor
\* invoked the gateway; generateResponse threw the rate-limit error.
C6_LimiterBeforeCache ==
  \A r \in Reqs :
    req[r].lim = "denied" =>
      /\ req[r].cacheRead = "none"
      /\ ~ req[r].gwCalled
      /\ req[r].gen = "rejected"
      /\ req[r].genVal = RateLimitExceeded

\* A client's last call was denied at a time when an entry for the message,
\* stored before and still usable now, was in the cache.
C6_Witness ==
  LET k == Normalized(<<"a">>)
  IN  /\ \E r \in Reqs : req[r].lim = "denied" /\ MessageIn(req[r]) = <<"a">>
      /\ \E c \in Clients :
           /\ calls[c] # <<>>
           /\ ~ calls[c][Len(calls[c])].allowed
           /\ lastStore[k].by # 0
           /\ lastStore[k].time < calls[c][Len(calls[c])].t
      /\ \/ rev = "sliding" /\ CacheHit(responseCache, k, now)
         \/ rev = "fixed" /\ k \in DOMAIN cache

\* C7: a request the limiter denies is answered 429 and causes no gateway
\* call, no cache write and no persistence write.
C7_DeniedIs429 ==
  \A r \in Reqs :
    req[r].lim = "denied" =>
      /\ req[r].pc = "done"
      /\ req[r].status = 429
      /\ ~ req[r].gwCalled
      /\ ~ req[r].cacheWrite
      /\ req[r].persist = "none"
      /\ \A k \in Keys : lastStore[k].by # r

C7_Witness ==
  \E r \in Reqs :
    /\ req[r].lim = "denied"
    /\ req[r].status = 429
    /\ req[r].error = "Too many requests. Please wait a moment before trying again."

\* The three ways the claim names for a parsed body to be invalid.
MessageMissing(v) == v.type # "object" \/ v.message.type = "undefined"

MessageEmpty(v) ==
  v.type = "object" /\ v.message.type = "string" /\ v.message.str = <<>>

MessageNotString(v) ==
  v.type = "object" /\ v.message.type \notin {"string", "undefined"}

InvalidInput(v) == MessageMissing(v) \/ MessageEmpty(v) \/ MessageNotString(v)

\* C8: a parsed body whose message is missing, empty or not a string is
\* answered 400 in a step that leaves the limiter and the caches unchanged and
\* calls neither the gateway nor persistence.
C8_InvalidInputFree ==
  [][ \A r \in Reqs :
        ( /\ Handled(r)
          /\ req'[r].body.parse = "ok"
          /\ InvalidInput(req'[r].body.json) )
        => /\ req'[r].pc = "done"
           /\ req'[r].status = 400
           /\ req'[r].lim = "none"
           /\ req'[r].cacheRead = "none"
           /\ ~ req'[r].gwCalled
           /\ req'[r].persist = "none"
           /\ UNCHANGED << rateLimitMap, responseCache, cache, cacheTimers,
                           calls, lastStore >> ]_vars

C8_Witness ==
  \E r, p \in Reqs :
    /\ req[r].status = 400
    /\ MessageNotString(req[r].body.json)
    /\ req[p].status = 400
    /\ MessageMissing(req[p].body.json) \/ MessageEmpty(req[p].body.json)
    /\ req[p].body.parse = "ok"

\* C9 (as claimed): a body that is not JSON is answered 400.
C9_MalformedIs400 ==
  \A r \in Reqs :
    (req[r].pc = "done" /\ req[r].body.parse = "error") => req[r].status = 400

\* C10: sliding revision: a lookup that finds an entry at or after
\* timestamp + CACHE_TTL is a miss: the request goes to the gateway and does
\* not take the stored text.
C10_ExpiredIsMiss ==
  [][ \A r \in Reqs :
        LET k == Normalized(MessageIn(req'[r]))
        IN  ( /\ rev = "sliding"
              /\ Handled(r)
              /\ ValidBody(req'[r].body.json)
              /\ req'[r].lim = "allowed"
              /\ k \in DOMAIN responseCache
              /\ now >= responseCache[k].timestamp + CACHE_TTL )
            => /\ req'[r].cacheRead = "miss"
               /\ req'[r].gwCalled
               /\ req'[r].gen = "pending"
               /\ req'[r].pc = "racing" ]_vars

C10_Witness ==
  /\ rev = "sliding"
  /\ \E r \in Reqs :
       LET k == Normalized(MessageIn(req[r]))
       IN  /\ req[r].pc = "racing"
           /\ req[r].cacheRead = "miss"
           /\ req[r].gwCalled
           /\ req[r].timer >= 0
           /\ k \in DOMAIN responseCache
           /\ responseCache[k].response # <<>>
           /\ responseCache[k].timestamp + CACHE_TTL <= req[r].timer - AI_RESPONSE_TIMEOUT

\* C11 (as claimed): fixed-window revision: when the gateway returns empty
\* text, generateResponse fails, nothing is written to the cache and no success
\* text is returned.
C11_EmptyTextFails ==
  \A r \in Reqs :
    (rev = "fixed" /\ req[r].gwText = << <<>> >>) =>
      /\ req[r].gen = "rejected"
      /\ ~ req[r].cacheWrite
      /\ req[r].status # 200
      /\ \A k \in Keys : lastStore[k].by # r

\* C12 (as claimed): sliding revision without a gateway client (no API key):
\* an admitted request that misses the cache is answered 500, not with text.
C12_NoClientIs500 ==
  \A r \in Reqs :
    ( /\ rev = "sliding"
      /\ ~ apiKey
      /\ req[r].lim = "allowed"
      /\ req[r].cacheRead = "miss"
      /\ req[r].pc = "done" )
    => /\ req[r].status = 500
       /\ req[r].response = <<>>

\* C13 (as claimed): sliding revision: responseCache never holds more entries
\* than its cap.
C13_CacheBounded ==
  rev = "sliding" => Cardinality(DOMAIN responseCache) <= CACHE_MAX_SIZE

\* The response of a request, as the client sees it.
Answer(q) == << q.status, q.response, q.error, q.details >>

\* C14: the race of POST is decided once: a request has a response exactly
\* when it is done, and then nothing changes it; the timer firing first gives
\* 504, generateResponse settling first gives what it settled with, and the
\* timer firing during persistence leaves the request as it was.
C14_RaceDecidedOnce ==
  /\ [](\A r \in Reqs :
          /\ (req[r].status # 0) <=> (req[r].pc = "done")
          /\ (req[r].pc = "done" /\ req[r].gen # "none" /\ ~ req[r].timedOut)
               => req[r].status # 504)
  /\ [][ \A r \in Reqs :
           /\ req[r].pc = "done" =>
                (req'[r].pc = "done" /\ Answer(req'[r]) = Answer(req[r]))
           /\ (req[r].pc = "racing" /\ req'[r].pc # "racing") =>
                IF req'[r].gen = "pending"
                  THEN req'[r].pc = "done" /\ req'[r].status = 504
                  ELSE \/ /\ req'[r].gen = "resolved"
                          /\ req'[r].pc = "persisting"
                       \/ /\ req'[r].gen = "rejected"
                          /\ req'[r].pc = "done"
                          /\ req'[r].status = 500
           /\ (req[r].pc = "persisting" /\ req'[r].timer # req[r].timer) =>
                (req'[r].pc = "persisting" /\ req'[r].genVal = req[r].genVal) ]_vars

C14_Witness ==
  \E r, p \in Reqs :
    /\ req[r].status = 504
    /\ req[r].timedOut
    /\ req[r].gwText # <<>>
    /\ req[r].gen = "resolved"
    /\ req[p].pc = "persisting"
    /\ req[p].timer = -1
    /\ req[p].gen = "resolved"

\* C15 (as claimed): POST answers 504 only when the timer fired before
\* generateResponse settled, 429 only when the limiter denied the request, and
\* 500 for every gateway failure.
C15_ClassificationSound ==
  \A r \in Reqs :
    /\ req[r].status = 504 => req[r].timedOut
    /\ req[r].status = 429 => req[r].lim = "denied"
    /\ ( /\ req[r].pc = "done"
         /\ req[r].gwCalled
         /\ req[r].gen = "rejected"
         /\ ~ req[r].timedOut ) => req[r].status = 500

\* C16: sliding revision: responseCache changes only in a step in which a
\* pending gateway call returns non-empty text, and that step sets the entry of
\* the request's key to the formatted text with the current time; denials, cache
\* hits, gateway failures, empty texts and the fallback without a client leave
\* every entry as it was.
C16_WriteOnlyOnSuccess ==
  [][ (rev = "sliding" /\ responseCache' # responseCache) =>
        \E r \in Reqs :
          /\ req[r].gen = "pending"
          /\ req'[r].gen = "resolved"
          /\ req'[r].cacheWrite
          /\ req'[r].lim # "denied"
          /\ req'[r].cacheRead = "miss"
          /\ req'[r].gwCalled
          /\ Len(req'[r].gwText) = 1
          /\ req'[r].gwText[1] # <<>>
          /\ Normalized(MessageIn(req[r])) \in DOMAIN responseCache'
          /\ responseCache'[Normalized(MessageIn(req[r]))] =
               [response |-> req'[r].genVal, timestamp |-> now] ]_vars

C16_Witness ==
  /\ rev = "sliding"
  /\ \E r, p \in Reqs :
       LET k == Normalized(MessageIn(req[r]))
       IN  /\ req[r].cacheWrite
           /\ req[r].gwText # <<>>
           /\ lastStore[k].by = r
           /\ k \in DOMAIN responseCache
           /\ responseCache[k] = [response |-> req[r].genVal, timestamp |-> lastStore[k].time]
           /\ p # r
           /\ req[p].pc = "done"
           /\ ~ req[p].cacheWrite
           /\ \/ req[p].cacheRead = "hit"
              \/ req[p].gwText = << <<>> >>
              \/ req[p].gwCalled /\ req[p].gen = "rejected"

\* C17: sliding revision: no two keys of responseCache normalize to the same
\* string, and while the latest store to a key is less than CACHE_TTL old the
\* cache holds that store's text and time for the key, so that a lookup gets them.
C17_StoreOverwrites ==
  rev = "sliding" =>
    /\ \A k1, k2 \in DOMAIN responseCache :
         Normalized(k1) = Normalized(k2) => k1 = k2
    /\ \A k \in Keys :
         (lastStore[k].by # 0 /\ now - lastStore[k].time < CACHE_TTL) =>
           /\ CacheHit(responseCache, k, now)
           /\ responseCache[k] =
                [response |-> lastStore[k].value, timestamp |-> lastStore[k].time]

\* Two requests for the same normalized message were in flight together and
\* both stored; the entry is the later one's.
C17_Witness ==
  /\ rev = "sliding"
  /\ \E r, p \in Reqs :
       LET k == Normalized(MessageIn(req[r]))
       IN  /\ r # p
           /\ req[r].cacheWrite /\ req[p].cacheWrite
           /\ req[r].cacheRead = "miss" /\ req[p].cacheRead = "miss"
           /\ Normalized(MessageIn(req[p])) = k
           /\ MessageIn(req[p]) # MessageIn(req[r])
           /\ req[p].genVal # req[r].genVal
           /\ lastStore[k].by = p
           /\ lastStore[k].time > 0
           /\ now < CACHE_TTL
           /\ DOMAIN responseCache = {k}
           /\ responseCache[k].response = req[p].genVal

\* C18 (as claimed): sliding revision: a lookup that finds an entry of age
\* CACHE_TTL or more is a miss and removes the entry from responseCache.
C18_StaleEvictedOnLookup ==
  [][ \A r \in Reqs :
        LET k == Normalized(MessageIn(req'[r]))
        IN  ( /\ rev = "sliding"
              /\ Handled(r)
              /\ ValidBody(req'[r].body.json)
              /\ req'[r].lim # "denied"
              /\ k \in DOMAIN responseCache
              /\ now - responseCache[k].timestamp >= CACHE_TTL )
            => /\ req'[r].cacheRead = "miss"
               /\ k \notin DOMAIN responseCache' ]_vars

\* C19 (as claimed): sliding-window limiter: admissions with a timestamp from
\* now - W on, now - W included, count against RATE_LIMIT: a call that has
\* RATE_LIMIT of them before it is denied.
C19_BoundaryCounted ==
  rev = "sliding" =>
    \A c \in Clients : \A i \in 1..Len(calls[c]) :
      Cardinality({ j \in 1..(i - 1) :
                      /\ calls[c][j].allowed
                      /\ calls[c][j].t >= calls[c][i].t - RATE_WINDOW }) >= RATE_LIMIT
        => ~ calls[c][i].allowed

\* The reference rule of the fixed-window limiter: the state of a client is
\* whether it was seen, its count and its reset time.
RefUnseen == [seen |-> FALSE, allowed |-> FALSE, count |-> 0, resetTime |-> 0]

RefStep(st, t) ==
  IF ~ st.seen \/ t > st.resetTime
    THEN [seen |-> TRUE, allowed |-> TRUE, count |-> 1,
          resetTime |-> t + RATE_LIMIT_WINDOW_MS]
  ELSE IF st.count >= RATE_LIMIT_MAX_REQUESTS
    THEN [st EXCEPT !.allowed = FALSE]
  ELSE [st EXCEPT !.allowed = TRUE, !.count = st.count + 1]

\* The reference state of client c after its first n requests.
RECURSIVE RefAfter(_, _)
RefAfter(c, n) ==
  IF n = 0 THEN RefUnseen ELSE RefStep(RefAfter(c, n - 1), calls[c][n].t)

\* C20: fixed-window revision: for every client, each admission decision and
\* the {count, resetTime} held after the client's requests so far are those of
\* the reference rule run over the same request times.
C20_FixedWindowConforms ==
  rev = "fixed" =>
    \A c \in Clients :
      /\ \A n \in 1..Len(calls[c]) :
           /\ calls[c][n].allowed = RefAfter(c, n).allowed
           /\ n > 1 => calls[c][n].t >= calls[c][n - 1].t
      /\ (c \in DOMAIN rateLimitMap) <=> (calls[c] # <<>>)
      /\ c \in DOMAIN rateLimitMap =>
           rateLimitMap[c] =
             [count     |-> RefAfter(c, Len(calls[c])).count,
              resetTime |-> RefAfter(c, Len(calls[c])).resetTime]

\* A client denied at exactly its reset time, with its count at the maximum.
C20_Witness ==
  /\ rev = "fixed"
  /\ \E c \in Clients :
       /\ Len(calls[c]) = RATE_LIMIT_MAX_REQUESTS + 1
       /\ ~ calls[c][Len(calls[c])].allowed
       /\ calls[c][Len(calls[c])].t = rateLimitMap[c].resetTime
       /\ rateLimitMap[c].count = RATE_LIMIT_MAX_REQUESTS

\* The requests of client c admitted in the interval [T, T + W].
AdmittedIn(c, T) ==
  Cardinality({ i \in 1..Len(calls[c]) :
                  /\ calls[c][i].allowed
                  /\ T <= calls[c][i].t
                  /\ calls[c][i].t <= T + RATE_LIMIT_WINDOW_MS })

\* Requests i .. i+2N-1 of client c lie in one interval of length W and
\* straddle a window boundary: the (N+1)-th of them opens a new window.
StraddlingBurst(c, i) ==
  /\ i + 2 * RATE_LIMIT_MAX_REQUESTS - 1 <= Len(calls[c])
  /\ calls[c][i + 2 * RATE_LIMIT_MAX_REQUESTS - 1].t - calls[c][i].t
       <= RATE_LIMIT_WINDOW_MS
  /\ i > 1
  /\ calls[c][i + RATE_LIMIT_MAX_REQUESTS].t >
       RefAfter(c, i + RATE_LIMIT_MAX_REQUESTS - 1).resetTime

Body(q) == [response |-> q.response, error |-> q.error, details |-> q.details]

\* The three user-facing texts of the catch block, by failure kind.
FailureText(status) ==
  IF status = 504 THEN "AI service is taking too long to respond. Please try again."
  ELSE IF status = 429 THEN "Too many requests. Please wait a moment before trying again."
  ELSE "Failed to generate response. Please try again."

Failed(q) == q.pc = "done" /\ q.status \in {429, 500, 504}

\* C22: outside development the body of a failure response is the fixed text
\* of its kind (timeout, rate-limited, other) and nothing else: no details and
\* no text; two failures of the same kind have the same body whatever the
\* underlying error message was.
C22_FailureBodyGeneric ==
  nodeEnv # "development" =>
    /\ \A r \in Reqs :
         Failed(req[r]) =>
           Body(req[r]) = [response |-> <<>>, error |-> FailureText(req[r].status),
                           details |-> <<>>]
    /\ \A r, p \in Reqs :
         (Failed(req[r]) /\ Failed(req[p]) /\ req[r].status = req[p].status)
           => Body(req[r]) = Body(req[p])

\* Two requests failed with 500 for different reasons, a gateway error and a
\* persistence error, and got the same body.
C22_Witness ==
  /\ nodeEnv # "development"
  /\ \E r, p \in Reqs :
       /\ Failed(req[r]) /\ Failed(req[p])
       /\ req[r].status = 500 /\ req[p].status = 500
       /\ req[r].gen = "rejected" /\ req[r].gwCalled
       /\ req[p].persist = "failed"
       /\ Body(req[r]) = Body(req[p])

\* C23 (as claimed): fixed-window revision: for CACHE_TTL_MS after the latest
\* store to a key the cache holds that store's text, also when an earlier
\* store to the same key came from a request in flight at the same time.
C23_EntryLivesItsTtl ==
  rev = "fixed" =>
    \A k \in Keys :
      (lastStore[k].by # 0 /\ now < lastStore[k].time + CACHE_TTL_MS) =>
        /\ k \in DOMAIN cache
        /\ cache[k].value = lastStore[k].value

\* The race of request q resolved with text: generateResponse resolved before
\* the timer fired.
GotText(q) == q.gen = "resolved" /\ ~ q.timedOut /\ q.status # 504

\* C24: storeChatMessage is called for a request exactly when its race
\* resolved with text, and once: never for a request answered 400, 429 or 504
\* or whose generateResponse failed, never for text that arrives after the
\* timeout; a call that was made is never made again.
C24_PersistOncePerSuccess ==
  /\ [](\A r \in Reqs :
          /\ (req[r].persist # "none") <=> GotText(req[r])
          /\ req[r].status \in {400, 429, 504} => req[r].persist = "none"
          /\ req[r].gen = "rejected" => req[r].persist = "none"
          /\ req[r].status = 200 => req[r].persist = "ok")
  /\ [][ \A r \in Reqs :
           /\ req'[r].persist = "called" =>
                (req[r].persist \in {"none", "called"})
           /\ (req[r].persist = "none" /\ req'[r].persist # "none") =>
                (req'[r].persist = "called" /\ req'[r].pc = "persisting")
           /\ req[r].persist \in {"ok", "failed"} =>
                req'[r].persist = req[r].persist ]_vars

\* One request timed out and its gateway text arrived afterwards, unpersisted;
\* another was served that text from the cache and persisted once.
C24_Witness ==
  \E r, p \in Reqs :
    /\ req[r].status = 504
    /\ req[r].gwText # <<>>
    /\ req[r].gen = "resolved"
    /\ req[r].persist = "none"
    /\ req[p].cacheRead = "hit"
    /\ req[p].persist = "ok"
    /\ req[p].status = 200
    /\ req[p].response = req[r].genVal

\* C25: every request that has arrived is eventually answered, whether or not
\* its gateway call ever settles.
C25_EveryRequestTerminates ==
  \A r \in Reqs : (req[r].pc # "new") ~> (req[r].pc = "done")

\* A request was answered while its gateway call was still unsettled, and the
\* clock has stopped.
C25_Witness ==
  /\ now = MaxTime
  /\ \E r \in Reqs :
       /\ req[r].pc = "done"
       /\ req[r].gen = "pending"
       /\ req[r].status = 504
       /\ req[r].timer = -1
  /\ \A r \in Reqs : req[r].pc \in {"new", "done"}

\* C26 (as claimed): sliding revision: the text generateResponse returns after
\* a gateway call, the text stored in responseCache and the text of a 200
\* response are never empty.
C26_SuccessNeverEmpty ==
  rev = "sliding" =>
    /\ \A r \in Reqs :
         /\ (req[r].gwCalled /\ req[r].gen = "resolved") => req[r].genVal # <<>>
         /\ req[r].status = 200 => req[r].response # <<>>
    /\ \A k \in DOMAIN responseCache : responseCache[k].response # <<>>

\* Request q was answered 504 and the gateway's text, not empty, came later.
LateText(q) ==
  /\ q.timedOut
  /\ q.status = 504
  /\ Len(q.gwText) = 1
  /\ q.gwText[1] # <<>>

\* C27: sliding revision: a request answered 504 whose gateway call later
\* returns non-empty text has stored that text; while its store is the latest
\* for the key and younger than CACHE_TTL the cache holds it, and an admitted
\* request for the same normalized message is then served it without a gateway
\* call.
C27_LateTextIsCached ==
  /\ [](rev = "sliding" =>
          \A r \in Reqs :
            LET k == Normalized(MessageIn(req[r]))
            IN  LateText(req[r]) =>
                  /\ req[r].cacheWrite
                  /\ req[r].response = <<>>
                  /\ (lastStore[k].by = r /\ now - lastStore[k].time < CACHE_TTL) =>
                       (k \in DOMAIN responseCache
                          /\ responseCache[k].response = req[r].genVal))
  /\ [][ \A p \in Reqs :
           LET last == lastStore[Normalized(MessageIn(req'[p]))]
           IN  ( /\ rev = "sliding"
                 /\ Handled(p)
                 /\ ValidBody(req'[p].body.json)
                 /\ req'[p].lim # "denied"
                 /\ last.by # 0
                 /\ LateText(req[last.by])
                 /\ now - last.time < CACHE_TTL )
               => /\ req'[p].cacheRead = "hit"
                  /\ ~ req'[p].gwCalled
                  /\ req'[p].genVal = req[last.by].genVal ]_vars

C27_Witness ==
  /\ rev = "sliding"
  /\ \E r, p \in Reqs :
       /\ LateText(req[r])
       /\ req[r].cacheWrite
       /\ req[p].cacheRead = "hit"
       /\ ~ req[p].gwCalled
       /\ req[p].status = 200
       /\ req[p].response = req[r].genVal
       /\ req[p].response # <<>>
       /\ MessageIn(req[p]) # MessageIn(req[r])
       /\ Normalized(MessageIn(req[p])) = Normalized(MessageIn(req[r]))

\* Sequence s ends with sequence u.
IsSuffix(u, s) ==
  /\ Len(u) <= Len(s)
  /\ \A i \in 1..Len(u) : u[i] = s[Len(s) - Len(u) + i]

\* C28: both revisions: a request the limiter denies leaves the limiter state
\* of every client as it was; what the limiter holds counts admitted requests
\* only (sliding: the latest admitted timestamps; fixed: the number admitted
\* since the window opened).
C28_DeniedNotRecorded ==
  /\ [][ \A r \in Reqs :
           (Handled(r) /\ req'[r].lim = "denied") => rateLimitMap' = rateLimitMap ]_vars
  /\ [](\A c \in DOMAIN rateLimitMap :
          IF rev = "sliding"
            THEN IsSuffix(rateLimitMap[c], AdmittedTimes(c))
            ELSE rateLimitMap[c].count =
                   Len(SelectSeq(AdmittedTimes(c),
                                 LAMBDA t : t >= rateLimitMap[c].resetTime
                                                   - RATE_LIMIT_WINDOW_MS)))

C28_Witness ==
  \E c \in Clients, r \in Reqs :
    /\ req[r].lim = "denied"
    /\ req[r].status = 429
    /\ Len(calls[c]) = RATE_LIMIT + 1
    /\ ~ calls[c][RATE_LIMIT + 1].allowed
    /\ calls[c][RATE_LIMIT + 1].t > calls[c][RATE_LIMIT].t
    /\ c \in DOMAIN rateLimitMap
    /\ IF rev = "sliding"
         THEN rateLimitMap[c] = AdmittedTimes(c)
         ELSE rateLimitMap[c].count = RATE_LIMIT_MAX_REQUESTS

\* The units of client c that limiter map m counts against a request at time t.
Units(m, c, t) ==
  IF c \notin DOMAIN m THEN 0
  ELSE IF rev = "sliding" THEN Len(RecentRequests(m[c], t))
  ELSE IF t > m[c].resetTime THEN 0
  ELSE m[c].count

\* What the limiter holds for client c, expired or not.
Held(c) ==
  IF c \notin DOMAIN rateLimitMap THEN 0
  ELSE IF rev = "sliding" THEN Len(rateLimitMap[c])
  ELSE rateLimitMap[c].count

\* C29: both revisions: the step that admits a request of a client raises the
\* units counted against that client by exactly one, whatever the request then
\* meets (cache hit, gateway, failure); and no step other than the arrival of
\* a request changes the limiter state, so that no outcome gives a unit back.
C29_NoQuotaRefund ==
  [][ /\ \A c \in Clients :
           ( /\ Len(calls'[c]) = Len(calls[c]) + 1
             /\ calls'[c][Len(calls'[c])].allowed )
           => Units(rateLimitMap', c, now) = Units(rateLimitMap, c, now) + 1
      /\ (\A r \in Reqs : ~ Handled(r)) => rateLimitMap' = rateLimitMap ]_vars

C29_Witness ==
  \E r1, r2, r3 \in Reqs :
    /\ \A r \in {r1, r2, r3} : req[r].lim = "allowed" /\ req[r].pc = "done"
    /\ req[r1].gwCalled /\ req[r1].status = 200
    /\ req[r2].cacheRead = "hit" /\ req[r2].status = 200
    /\ req[r3].gwCalled /\ req[r3].status \in {500, 504}
    /\ \E c1, c2 \in Clients :
         /\ c1 # c2
         /\ Held(c1) + Held(c2) = 3

\* The limiter's entry of client c: <<entry>>, or <<>> when it has none.
EntryOf(m, c) == IF c \in DOMAIN m THEN <<m[c]>> ELSE <<>>

\* The decision on request i of client c computed from the client's own
\* earlier requests alone.
OwnDecision(c, i) ==
  IF rev = "sliding"
    THEN Cardinality({ j \in 1..(i - 1) :
                         /\ calls[c][j].allowed
                         /\ calls[c][j].t > calls[c][i].t - RATE_WINDOW }) < RATE_LIMIT
    ELSE RefAfter(c, i).allowed

\* C30: both revisions: a step in which client b makes no request leaves b's
\* limiter entry as it was, whatever the other clients do; and every decision
\* on a request of b is the one b's own earlier requests determine.
C30_ClientsIsolated ==
  /\ [][ \A b \in Clients :
           calls'[b] = calls[b] => EntryOf(rateLimitMap', b) = EntryOf(rateLimitMap, b) ]_vars
  /\ [](\A b \in Clients : \A i \in 1..Len(calls[b]) :
          calls[b][i].allowed = OwnDecision(b, i))

C30_Witness ==
  \E a, b \in Clients :
    /\ a # b
    /\ Len(calls[a]) = RATE_LIMIT
    /\ Units(rateLimitMap, a, now) = RATE_LIMIT
    /\ Len(calls[b]) = 1
    /\ calls[b][1].allowed
    /\ calls[b][1].t >= calls[a][RATE_LIMIT].t
    /\ Units(rateLimitMap, b, now) = 1

\* The x-forwarded-for header is absent, empty, or has an empty first element.
NoFirstAddress(h) ==
  \/ ~ h.present
  \/ h.value = <<>>
  \/ Trim(SplitFirst(h.value)) = <<>>

\* C31: sliding revision: the client identity derived from any header is not
\* empty, and is 'unknown' when the header is absent, empty or starts with an
\* empty element; the step that handles a request with a valid body asks the
\* limiter exactly once, for one client, and a denied request has looked in no
\* cache and called no gateway; no later step asks the limiter again.
C31_NoLimiterBypass ==
  /\ [](\A h \in Headers :
          /\ ClientIp(h) # <<>>
          /\ NoFirstAddress(h) => ClientIp(h) = UNKNOWN)
  /\ [](rev = "sliding" =>
          \A r \in Reqs :
            (req[r].cacheRead # "none" \/ req[r].gwCalled) => req[r].lim = "allowed")
  /\ [][ rev = "sliding" =>
           /\ \A r \in Reqs :
                (Handled(r) /\ ValidBody(req'[r].body.json)) =>
                  /\ req'[r].lim \in {"allowed", "denied"}
                  /\ \E c \in Clients :
                       /\ calls'[c] = Append(calls[c],
                                             [t |-> now,
                                              allowed |-> req'[r].lim = "allowed"])
                       /\ \A b \in Clients \ {c} : calls'[b] = calls[b]
           /\ (\A r \in Reqs : ~ Handled(r)) => calls' = calls ]_vars

C31_Witness ==
  /\ rev = "sliding"
  /\ Len(calls[UNKNOWN]) = RATE_LIMIT + 1
  /\ ~ calls[UNKNOWN][RATE_LIMIT + 1].allowed
  /\ \A c \in Clients \ {UNKNOWN} : calls[c] = <<>>
  /\ \E r \in Reqs :
       /\ req[r].lim = "denied"
       /\ req[r].cacheRead = "none"
       /\ ~ req[r].gwCalled
       /\ req[r].status = 429
  /\ \E r \in Reqs : req[r].lim = "allowed" /\ req[r].cacheRead = "hit"

\* C32: in every reachable state the list checkRateLimit holds for a client has
\* between 1 and RATE_LIMIT timestamps, its last is the client's last admission
\* and all are later than that admission less RATE_WINDOW; in the fixed-window
\* revision the count held is between 1 and RATE_LIMIT_MAX_REQUESTS.
C32_LimiterStateBounded ==
  \A c \in DOMAIN rateLimitMap :
    IF rev = "sliding"
      THEN LET ts   == rateLimitMap[c]
               adm  == AdmittedTimes(c)
           IN  /\ Len(ts) >= 1
               /\ Len(ts) <= RATE_LIMIT
               /\ adm # <<>>
               /\ ts[Len(ts)] = adm[Len(adm)]
               /\ \A i \in 1..Len(ts) : ts[i] > adm[Len(adm)] - RATE_WINDOW
      ELSE /\ rateLimitMap[c].count >= 1
           /\ rateLimitMap[c].count <= RATE_LIMIT_MAX_REQUESTS

C32_Witness ==
  \E c \in DOMAIN rateLimitMap :
    /\ Len(AdmittedTimes(c)) = RATE_LIMIT + 1
    /\ IF rev = "sliding"
         THEN /\ Len(rateLimitMap[c]) = RATE_LIMIT
              /\ AdmittedTimes(c)[1] \notin { rateLimitMap[c][i] : i \in 1..RATE_LIMIT }
         ELSE /\ rateLimitMap[c].count = RATE_LIMIT_MAX_REQUESTS
              /\ rateLimitMap[c].resetTime > RATE_LIMIT_WINDOW_MS

=============================================================================
